---- MODULE Spec2Model ----
(***************************************************************************)
(* A model of workflow_runner.py: the command sequencer                    *)
(* (get_workflow_cmd_num), variable substitution (prepare_cmd), the        *)
(* executor wrapper (run_cmd), the command loop of __main__ and the        *)
(* failure path (WorkflowException.__init__, WFConfigException).           *)
(*                                                                         *)
(* Strings are sequences of tokens.  A token is an ordinary piece of text  *)
(* ("a", "\n", ...), the percent character "%", the reserved escape       *)
(* "_PERC_", or a whole placeholder "%(name)s".                            *)
(*                                                                         *)
(* The configuration file is an input of the run.  The value of a          *)
(* directive is fixed when the program first asks DSConfig for it and is   *)
(* kept in workflow_config from then on, so that a directive read twice    *)
(* reads the same; a directive not yet read is Unread.                     *)
(***************************************************************************)
EXTENDS Integers, Sequences, FiniteSets, TLC

\* ------------------------------------------------------------- bounds
\* Highest command number a configuration file may define.
MaxCmd == 3
\* Longest always_run_cmds list.
MaxAlways == 2
\* Depth at which the interpreter stops a recursion (RuntimeError).
MaxRecursion == 3
\* Longest command template of the expansion's own specification.
MaxTemplateLen == 3

\* ------------------------------------------------------------ strings
\* A directive the file does not have, and one the program has not read yet.
Absent == <<"<absent>">>
Unread == <<"<unread>">>

\* always_run_cmds as DSConfig.get(..., 'list') and int(x) see it.
NoAlwaysRun == [kind |-> "absent", list |-> <<>>]
MalformedAlwaysRun == [kind |-> "malformed", list |-> <<>>]
UnreadAlwaysRun == [kind |-> "unread", list |-> <<>>]
AlwaysRunList(l) == [kind |-> "list", list |-> l]

Range(s) == {s[i] : i \in DOMAIN s}

\* 'cmd_%d_output' % command_num
CmdOutputVar(n) == "cmd_" \o ToString(n) \o "_output"

\* The names a template of the model may reference.
VarNames ==
    {"now", "YrMn", "YrMnDy", "curdate", "zk_queue_value"}
        \cup {CmdOutputVar(n) : n \in 1..(MaxCmd + 1)}

\* The token "%(name)s".
Placeholder(name) == "%(" \o name \o ")s"

PlaceholderTokens == {Placeholder(name) : name \in VarNames}

NameOf(tok) == CHOOSE name \in VarNames : Placeholder(name) = tok

\* A faulty variant of Fmt: a name the mapping lacks is replaced by nothing.
RECURSIVE Fmt_EmptyForMissing(_, _, _, _)
Fmt_EmptyForMissing(t, i, v, acc) ==
    IF i > Len(t) THEN [exc |-> "none", val |-> acc]
    ELSE IF t[i] \in PlaceholderTokens THEN
        Fmt_EmptyForMissing(t, i + 1, v,
            IF NameOf(t[i]) \in DOMAIN v THEN acc \o v[NameOf(t[i])] ELSE acc)
    ELSE IF t[i] = "%" THEN
        IF i < Len(t) /\ t[i + 1] = "%"
        THEN Fmt_EmptyForMissing(t, i + 2, v, Append(acc, "%"))
        ELSE IF i < Len(t) /\ t[i + 1] \in PlaceholderTokens
        THEN Fmt_EmptyForMissing(t, i + 2, v, Append(acc, t[i + 1]))
        ELSE [exc |-> "ValueError", val |-> <<"format">>]
    ELSE Fmt_EmptyForMissing(t, i + 1, v, Append(acc, t[i]))

\* raw_cmd % convenience_variables: one pass, left to right, over the
\* template.  "%(name)s" is replaced by the value of name (KeyError when
\* the mapping has no such key), "%%" gives "%", and a "%" followed by
\* anything else, or by nothing, is a ValueError.  The text of a value is
\* appended as it is and is not scanned again.
RECURSIVE Fmt(_, _, _, _)
Fmt(t, i, v, acc) ==
    IF i > Len(t) THEN [exc |-> "none", val |-> acc]
    ELSE IF t[i] \in PlaceholderTokens THEN
        IF NameOf(t[i]) \in DOMAIN v
        THEN Fmt(t, i + 1, v, acc \o v[NameOf(t[i])])
        ELSE [exc |-> "KeyError", val |-> <<NameOf(t[i])>>]
    ELSE IF t[i] = "%" THEN
        IF i < Len(t) /\ t[i + 1] = "%"
        THEN Fmt(t, i + 2, v, Append(acc, "%"))
        ELSE IF i < Len(t) /\ t[i + 1] \in PlaceholderTokens
        THEN Fmt(t, i + 2, v, Append(acc, t[i + 1]))
        ELSE [exc |-> "ValueError", val |-> <<"format">>]
    ELSE Fmt(t, i + 1, v, Append(acc, t[i]))

PercentFormat(raw_cmd, variables) == Fmt(raw_cmd, 1, variables, <<>>)

\* A faulty variant of ReplacePerc: the escape token is left in the line.
ReplacePerc_Missing(s) == s

\* cmd_substituted.replace('_PERC_', '%')
ReplacePerc(s) == [i \in DOMAIN s |-> IF s[i] = "_PERC_" THEN "%" ELSE s[i]]

\* prepare_cmd: the expanded command, or the exception of the substitution.
prepare_cmd(raw_cmd, variables) ==
    LET r == PercentFormat(raw_cmd, variables)
    IN  IF r.exc = "none" THEN [exc |-> "none", val |-> ReplacePerc(r.val)]
        ELSE r

\* "Required variable not found during execution %s" % emsg
MissingVariableMsg(key) ==
    <<"Required variable not found during execution ">> \o key

\* ---------------------------------------------------------- executor
Whitespace == {" ", "\n"}

RECURSIVE LStrip(_)
LStrip(s) ==
    IF s /= <<>> /\ Head(s) \in Whitespace THEN LStrip(Tail(s)) ELSE s

RECURSIVE RStrip(_)
RStrip(s) ==
    IF s /= <<>> /\ s[Len(s)] \in Whitespace
    THEN RStrip(SubSeq(s, 1, Len(s) - 1)) ELSE s

\* result_value.strip()
Strip(s) == LStrip(RStrip(s))

\* What the spawned shell may do with a command line: print the line back
\* and exit 0, exit 1 silently, or exit 0 after writing to its error stream.
ProcResults(full_cmd) ==
    { [out |-> full_cmd \o <<"\n">>, err |-> <<>>, rc |-> 0],
      [out |-> <<>>, err |-> <<>>, rc |-> 1],
      [out |-> <<"partial">>, err |-> <<"oops">>, rc |-> 0] }

\* A faulty variant of RunCmdFails: the error stream is not looked at.
RunCmdFails_IgnoresStderr(res) == res.rc /= 0

\* run_cmd: if err or return_code != 0: raise Exception(...)
RunCmdFails(res) == res.err /= <<>> \/ res.rc /= 0

\* "%s\nUnexpected return code or value: %d, %s"
RunCmdErrorMsg(res) ==
    res.out \o <<"\n", "Unexpected return code or value: ", ToString(res.rc), ", ">>
        \o res.err

\* run_cmd: the value returned on success.
RunCmdValue(res) == Strip(res.out)

\* --------------------------------------------------------- sequencer
RECURSIVE Insert(_, _)
Insert(x, s) ==
    IF s = <<>> THEN <<x>>
    ELSE IF x <= Head(s) THEN <<x>> \o s
    ELSE <<Head(s)>> \o Insert(x, Tail(s))

\* cmd_num_list.sort()
RECURSIVE Sort(_)
Sort(s) == IF s = <<>> THEN <<>> ELSE Insert(Head(s), Sort(Tail(s)))

\* A faulty variant of Probe: the loop stops one command early.
RECURSIVE Probe_DropsLast(_, _, _)
Probe_DropsLast(cmds, cmd_num, cmd_num_list) ==
    IF cmd_num \in cmds /\ cmd_num + 1 \in cmds
    THEN Probe_DropsLast(cmds, cmd_num + 1,
               IF cmd_num \notin Range(cmd_num_list)
               THEN Append(cmd_num_list, cmd_num) ELSE cmd_num_list)
    ELSE cmd_num_list

\* A faulty variant of Probe: a number is appended whether the list has it or not.
RECURSIVE Probe_NoDedup(_, _, _)
Probe_NoDedup(cmds, cmd_num, cmd_num_list) ==
    IF cmd_num \in cmds
    THEN Probe_NoDedup(cmds, cmd_num + 1, Append(cmd_num_list, cmd_num))
    ELSE cmd_num_list

\* A faulty variant of Probe: a number of the list keeps the loop going.
RECURSIVE Probe_OverrideBridgesGap(_, _, _)
Probe_OverrideBridgesGap(cmds, cmd_num, cmd_num_list) ==
    IF cmd_num \in cmds
    THEN Probe_OverrideBridgesGap(cmds, cmd_num + 1,
               IF cmd_num \notin Range(cmd_num_list)
               THEN Append(cmd_num_list, cmd_num) ELSE cmd_num_list)
    ELSE IF cmd_num \in Range(cmd_num_list)
    THEN Probe_OverrideBridgesGap(cmds, cmd_num + 1, cmd_num_list)
    ELSE cmd_num_list

\* The while loop: probe cmd_num, cmd_num + 1, ... until has_option fails.
RECURSIVE Probe(_, _, _)
Probe(cmds, cmd_num, cmd_num_list) ==
    IF cmd_num \in cmds
    THEN Probe(cmds, cmd_num + 1,
               IF cmd_num \notin Range(cmd_num_list)
               THEN Append(cmd_num_list, cmd_num) ELSE cmd_num_list)
    ELSE cmd_num_list

\* A faulty variant of AlwaysRunPrefix: the starting number is not looked at.
AlwaysRunPrefix_AnyStart(starting_cmd_num, always_run_cmds) ==
    IF always_run_cmds.kind = "list" THEN always_run_cmds.list ELSE <<>>

\* The list before the probe: always_run_cmds when starting_cmd_num > 1 and
\* the directive is there.
AlwaysRunPrefix(starting_cmd_num, always_run_cmds) ==
    IF starting_cmd_num > 1 /\ always_run_cmds.kind = "list"
    THEN always_run_cmds.list ELSE <<>>

\* int(x) for x in the list fails: ValueError.
SequencerValueError(starting_cmd_num, always_run_cmds) ==
    starting_cmd_num > 1 /\ always_run_cmds.kind = "malformed"

\* get_workflow_cmd_num, for a well-formed directive: the sorted list it
\* yields, <<>> standing for WFConfigException("No workflow commands found.").
get_workflow_cmd_num(starting_cmd_num, cmds, always_run_cmds) ==
    Sort(Probe(cmds, starting_cmd_num,
               AlwaysRunPrefix(starting_cmd_num, always_run_cmds)))

\* ------------------------------------------------------------- inputs
\* The command templates a configuration file of the model may hold.
CommandTemplates ==
    {<<"a">>, <<"a", "%">>}
        \cup {<<"b", Placeholder(CmdOutputVar(k)), "_PERC_">> : k \in 1..MaxCmd}

\* The values of premature_end_cmd.
PrematureEndChoices ==
    {Absent, <<"c", "_PERC_">>, <<"c", Placeholder(CmdOutputVar(1))>>, <<"c", "%">>}

\* The values of zk_queue_path.
ZkQueuePathChoices == {Absent, <<>>, <<"/q">>}

\* The values of max_num_chars_cmd_output after int(): <<>> is None.
NumCharsChoices == {<<>>, <<1>>}

\* The values of sys.argv[2] after int().
StartingNums == 0..(MaxCmd + 1)

\* The values of report_runtimes.
ReportRuntimesChoices == {Absent, <<"False">>, <<"yes">>}

\* The always_run_cmds lists of a run.
RunAlwaysChoices ==
    {NoAlwaysRun, MalformedAlwaysRun}
        \cup {AlwaysRunList(l) : l \in {<<1>>, <<2>>, <<1, 1>>, <<1, 2>>, <<2, 1>>}}

\* -------------------------------------------------------------- state
VARIABLES
    pc,                      \* where __main__ stands
    starting_command_num,    \* sys.argv[2], default 1
    workflow_config,         \* the directives read so far
    num_chars_to_log,        \* <<>> for None, <<n>> for n
    report_runtime,          \* WorkflowRuntime._report_runtime: "True", "False" or a string
    runtimes,                \* the keys of WorkflowRuntime._runtimes
    convenience_variables,   \* name -> value
    plan,                    \* what the generator has still to yield
    yielded,                 \* what the generator has yielded
    command_num,             \* the loop variable, a module global
    command,                 \* the expanded command
    exc,                     \* the arguments of the WorkflowException being built
    handler_entries,         \* calls of WorkflowException.__init__ so far
    executed,                \* the command lines handed to run_cmd
    printed,                 \* the lines written to standard output
    failure,                 \* the first failure of the loop
    exit_status,             \* -1 while running, then the process status
    exit_msg                 \* what the process ends with on its error stream

vars ==
    <<pc, starting_command_num, workflow_config, num_chars_to_log,
      report_runtime, runtimes, convenience_variables, plan, yielded,
      command_num, command, exc, handler_entries, executed, printed, failure,
      exit_status, exit_msg>>

NoExc == [command_num |-> 0, emsg |-> <<>>]
NoFailure == [command_num |-> 0, kind |-> "none", emsg |-> <<>>]

Init ==
    /\ pc = "start"
    /\ starting_command_num = 1
    /\ workflow_config =
           [loaded |-> FALSE,
            cmds |-> {},
            templates |-> <<>>,
            always_run_cmds |-> UnreadAlwaysRun,
            premature_end_cmd |-> Unread,
            zk_queue_path |-> Unread]
    /\ num_chars_to_log = <<>>
    /\ report_runtime = "True"
    /\ runtimes = {}
    /\ convenience_variables = <<>>
    /\ plan = <<>>
    /\ yielded = <<>>
    /\ command_num = 0
    /\ command = <<>>
    /\ exc = NoExc
    /\ handler_entries = 0
    /\ executed = <<>>
    /\ printed = <<>>
    /\ failure = NoFailure
    /\ exit_status = -1
    /\ exit_msg = <<>>

\* A faulty variant of SysExit: sys.exit() is called without the message.
SysExit_NoMessage(message) ==
    /\ pc' = "exited"
    /\ exit_status' = 0
    /\ exit_msg' = <<>>

\* --------------------------------------------------------- termination
\* sys.exit(message): the message on the error stream, status 1.
SysExit(message) ==
    /\ pc' = "exited"
    /\ exit_status' = 1
    /\ exit_msg' = message

\* An exception nobody catches: the traceback, status 1.
Uncaught(exception, message) ==
    /\ pc' = "exited"
    /\ exit_status' = 1
    /\ exit_msg' = <<"Traceback", exception, ": ">> \o message

\* sys.exit("Workflow ended prematurely, #%d command error: %s" % ...)
PrematureEndMsg(num, emsg) ==
    <<"Workflow ended prematurely, #", ToString(num), " command error: ">> \o emsg

\* A call of run_cmd: who made it, the command line, what the process did.
Call(kind, num, full_cmd, res) ==
    [kind |-> kind, command_num |-> num, cmd |-> full_cmd,
     out |-> res.out, rc |-> res.rc, err |-> res.err]

\* s[0:lim] of Python, lim being <<>> (None) or <<n>>.
Slice(s, lim) ==
    IF lim = <<>> THEN s
    ELSE IF lim[1] >= 0
    THEN SubSeq(s, 1, IF lim[1] < Len(s) THEN lim[1] ELSE Len(s))
    ELSE SubSeq(s, 1, IF Len(s) + lim[1] > 0 THEN Len(s) + lim[1] ELSE 0)

\* report_runtime.lower(), on the values of the model.
Lower(str) == IF str = "False" THEN "false" ELSE str

\* if self._report_runtime: of a bool or a string.
Truthy(value) == value \notin {"False", ""}

\* WorkflowRuntime.track
Track(thing) == IF Truthy(report_runtime) THEN runtimes \cup {thing} ELSE runtimes

\* What WorkflowRuntime.report prints for thing: a line, or nothing (False).
RuntimeLine(prefix, thing, tracked) ==
    IF thing \in tracked THEN <<prefix \o <<"runtime: ", "<elapsed>">>>> ELSE <<>>

\* ----------------------------------------------------------- start-up
\* Lines 131-145: the argument count, DSConfig(...), int(sys.argv[2]).
ParseArgs ==
    /\ pc = "start"
    /\ \E argc \in 1..4 :
        \/ /\ argc \notin {2, 3}
           \* raise WFConfigException(print_usage()): sys.exit(None)
           /\ printed' = Append(printed, <<"Usage">>)
           /\ pc' = "exited"
           /\ exit_status' = 0
           /\ exit_msg' = <<>>
           /\ UNCHANGED <<starting_command_num, workflow_config>>
        \/ /\ argc \in {2, 3}
           \* DSConfig raises: raise WFConfigException(str(e))
           /\ SysExit(<<"No configuration files found">>)
           /\ UNCHANGED <<starting_command_num, workflow_config, printed>>
        \/ /\ argc = 3
           \* int(sys.argv[2]) of something that is no number
           /\ Uncaught("ValueError", <<"invalid literal for int()">>)
           /\ workflow_config' = [workflow_config EXCEPT !.loaded = TRUE]
           /\ UNCHANGED <<starting_command_num, printed>>
        \/ /\ argc \in {2, 3}
           /\ workflow_config' = [workflow_config EXCEPT !.loaded = TRUE]
           /\ \E s \in StartingNums :
                starting_command_num' = IF argc = 3 THEN s ELSE 1
           /\ pc' = "options"
           /\ UNCHANGED <<printed, exit_status, exit_msg>>
    /\ UNCHANGED <<num_chars_to_log, report_runtime, runtimes,
                   convenience_variables, plan, yielded, command_num, command,
                   exc, handler_entries, executed, failure>>

\* Lines 147-171: max_num_chars_cmd_output, report_runtimes, the
\* convenience variables.
ReadOptions ==
    /\ pc = "options"
    /\ \/ \* the file has no [workflow_config] section: the parser's
          \* NoSectionError is neither NoOptionError nor ConfigException
          /\ Uncaught("NoSectionError", <<"No section: ", "workflow_config">>)
          /\ UNCHANGED <<num_chars_to_log, report_runtime, convenience_variables>>
       \/ /\ \E lim \in NumCharsChoices : num_chars_to_log' = lim
          /\ \E value \in ReportRuntimesChoices :
               report_runtime' =
                   IF value = Absent THEN "True"
                   ELSE IF Lower(value[1]) = "false" THEN "False"
                   ELSE value[1]
          /\ convenience_variables' =
                 [name \in {"now", "YrMn", "YrMnDy", "curdate"} |-> <<name>>]
          /\ pc' = "zk"
          /\ UNCHANGED <<exit_status, exit_msg>>
    /\ UNCHANGED <<starting_command_num, workflow_config, runtimes, plan,
                   yielded, command_num, command, exc, handler_entries, executed,
                   printed, failure>>

\* What /usr/local/bin/zk qpoll may do: print a value, print nothing, fail.
ZkResults ==
    { [out |-> <<"v", "\n">>, err |-> <<>>, rc |-> 0],
      [out |-> <<>>, err |-> <<>>, rc |-> 0],
      [out |-> <<>>, err |-> <<"no node">>, rc |-> 1] }

ZkCmd(path) == <<"/usr/local/bin/zk", " qpoll ">> \o path

\* Lines 173-188: zk_queue_path and the queue lookup.
ZkLookup ==
    /\ pc = "zk"
    /\ \E path \in ZkQueuePathChoices :
        /\ workflow_config' = [workflow_config EXCEPT !.zk_queue_path = path]
        /\ \/ /\ path = Absent
              /\ SysExit(<<"ZK queue path directive not found in config file">>)
              /\ UNCHANGED <<convenience_variables, executed>>
           \/ /\ path = <<>>
              /\ pc' = "plan"
              /\ UNCHANGED <<convenience_variables, executed, exit_status, exit_msg>>
           \/ /\ path \notin {Absent, <<>>}
              /\ \E res \in ZkResults :
                   /\ executed' = Append(executed, Call("zk", 0, ZkCmd(path), res))
                   /\ IF RunCmdFails(res)
                      THEN /\ SysExit(<<"Nothing in the workflow queue ">> \o path)
                           /\ UNCHANGED convenience_variables
                      ELSE /\ convenience_variables' =
                                  ("zk_queue_value" :> RunCmdValue(res))
                                      @@ convenience_variables
                           /\ pc' = "plan"
                           /\ UNCHANGED <<exit_status, exit_msg>>
    /\ UNCHANGED <<starting_command_num, num_chars_to_log, report_runtime,
                   runtimes, plan, yielded, command_num, command, exc,
                   handler_entries, printed, failure>>

\* Lines 191-192 and 68-94: track('workflow') and the generator up to its
\* first yield.
Plan ==
    /\ pc = "plan"
    /\ runtimes' = Track("workflow")
    /\ \E cmds \in SUBSET (1..MaxCmd), always \in RunAlwaysChoices :
        /\ workflow_config' =
               [workflow_config EXCEPT
                   !.cmds = cmds,
                   !.always_run_cmds =
                       IF starting_command_num > 1 THEN always ELSE @]
        /\ IF SequencerValueError(starting_command_num, always)
           THEN /\ Uncaught("ValueError", <<"invalid literal for int()">>)
                /\ UNCHANGED plan
           ELSE IF get_workflow_cmd_num(starting_command_num, cmds, always) = <<>>
           THEN /\ SysExit(<<"No workflow commands found.">>)
                /\ UNCHANGED plan
           ELSE /\ plan' = get_workflow_cmd_num(starting_command_num, cmds, always)
                /\ pc' = "loop"
                /\ UNCHANGED <<exit_status, exit_msg>>
    /\ UNCHANGED <<starting_command_num, num_chars_to_log, report_runtime,
                   convenience_variables, yielded, command_num, command, exc,
                   handler_entries, executed, printed, failure>>

\* ------------------------------------------------------ the command loop
\* A faulty variant of RaiseWorkflowException: the failure is noted and the loop goes on.
RaiseWorkflowException_Continue(num, kind, emsg) ==
    /\ exc' = exc
    /\ failure' = [command_num |-> num, kind |-> kind, emsg |-> emsg]
    /\ pc' = "loop"

\* raise WorkflowException(command_num, emsg, convenience_variables), from
\* prepare_cmd (line 65) or from the loop (line 207): the constructor is
\* about to run with these arguments.
RaiseWorkflowException(num, kind, emsg) ==
    /\ exc' = [command_num |-> num, emsg |-> emsg]
    /\ failure' = [command_num |-> num, kind |-> kind, emsg |-> emsg]
    /\ pc' = "handler"

\* workflow_config.get(str(command_num)): the template of a command read
\* before, or any template for one read for the first time.
TemplatesOf(n) ==
    IF n \in DOMAIN workflow_config.templates
    THEN {workflow_config.templates[n]} ELSE CommandTemplates

\* Lines 192-196: the generator yields the next number; the template is
\* looked up, expanded and echoed.
NextCommand ==
    /\ pc = "loop"
    /\ plan /= <<>>
    /\ command_num' = Head(plan)
    /\ plan' = Tail(plan)
    /\ yielded' = Append(yielded, Head(plan))
    /\ \/ /\ Head(plan) \notin workflow_config.cmds
          \* DSConfig.get raises ConfigException, which nothing catches
          /\ Uncaught("ConfigException", <<"No option ", ToString(Head(plan))>>)
          /\ failure' = IF failure.kind = "none"
                        THEN [command_num |-> Head(plan), kind |-> "CommandNotFound",
                              emsg |-> <<"No option ", ToString(Head(plan))>>]
                        ELSE failure
          /\ UNCHANGED <<workflow_config, command, exc, printed>>
       \/ /\ Head(plan) \in workflow_config.cmds
          /\ \E raw_command \in TemplatesOf(Head(plan)) :
              LET r == prepare_cmd(raw_command, convenience_variables) IN
              /\ workflow_config' =
                     [workflow_config EXCEPT
                         !.templates = (Head(plan) :> raw_command) @@ @]
              /\ CASE r.exc = "KeyError" ->
                        \* raise WorkflowException(command_num, ...)
                        /\ RaiseWorkflowException(Head(plan), "MissingVariable",
                                                  MissingVariableMsg(r.val))
                        /\ UNCHANGED <<command, printed, exit_status, exit_msg>>
                   [] r.exc = "ValueError" ->
                        /\ Uncaught("ValueError", r.val)
                        /\ failure' = [command_num |-> Head(plan),
                                       kind |-> "BadTemplate", emsg |-> r.val]
                        /\ UNCHANGED <<command, exc, printed>>
                   [] OTHER ->
                        /\ command' = r.val
                        /\ printed' = Append(printed,
                               <<"#", ToString(Head(plan)), " >> ">>
                                   \o Slice(r.val, num_chars_to_log) \o <<" ...">>)
                        /\ pc' = "run"
                        /\ UNCHANGED <<exc, failure, exit_status, exit_msg>>
    /\ UNCHANGED <<starting_command_num, num_chars_to_log, report_runtime,
                   runtimes, convenience_variables, handler_entries, executed>>

RuntimeKey(n) == "cmd_" \o ToString(n)

\* A faulty variant of SavedOutput: what is saved is what is logged.
SavedOutput_Capped(cmd_output, lim) ==
    IF lim = <<>> THEN cmd_output
    ELSE SubSeq(cmd_output, 1, IF lim[1] < Len(cmd_output) THEN lim[1]
                               ELSE Len(cmd_output))

\* Line 210: the value saved as cmd_N_output is cmd_output itself; the
\* [0:num_chars_to_log] of line 200 is applied to the printed copy only.
SavedOutput(cmd_output, lim) == cmd_output

\* Lines 198-210: run the command; print and save its output, or raise
\* WorkflowException.
RunCommand ==
    /\ pc = "run"
    /\ runtimes' = Track(RuntimeKey(command_num))
    /\ \E res \in ProcResults(command) :
        /\ executed' = Append(executed, Call("workflow", command_num, command, res))
        /\ IF RunCmdFails(res)
           THEN /\ RaiseWorkflowException(command_num, "ExecutionError",
                                          RunCmdErrorMsg(res))
                /\ UNCHANGED <<convenience_variables, printed>>
           ELSE /\ printed' = printed
                       \o <<Slice(RunCmdValue(res), num_chars_to_log)>>
                       \o RuntimeLine(<<"#", ToString(command_num), " >> ">>,
                                      RuntimeKey(command_num), runtimes')
                /\ convenience_variables' =
                       (CmdOutputVar(command_num)
                            :> SavedOutput(RunCmdValue(res), num_chars_to_log))
                           @@ convenience_variables
                /\ pc' = "loop"
                /\ UNCHANGED <<exc, failure>>
    /\ UNCHANGED <<starting_command_num, workflow_config, num_chars_to_log,
                   report_runtime, plan, yielded, command_num, command,
                   handler_entries, exit_status, exit_msg>>

\* Lines 212-216: the generator is exhausted.
Complete ==
    /\ pc = "loop"
    /\ plan = <<>>
    /\ printed' = printed \o <<<<"Workflow completed at ", "now">>>>
                      \o RuntimeLine(<<">> ">>, "workflow", runtimes)
    /\ pc' = "completed"
    /\ exit_status' = 0
    /\ exit_msg' = <<>>
    /\ UNCHANGED <<starting_command_num, workflow_config, num_chars_to_log,
                   report_runtime, runtimes, convenience_variables, plan,
                   yielded, command_num, command, exc, handler_entries,
                   executed, failure>>

\* ------------------------------------------------------ the failure path
PrematureEndOf ==
    IF workflow_config.premature_end_cmd = Unread
    THEN PrematureEndChoices ELSE {workflow_config.premature_end_cmd}

\* WorkflowException.__init__ (lines 114-121), entered with the arguments
\* in exc.  prepare_cmd reads the module global command_num when it raises.
FailureHandler ==
    /\ pc = "handler"
    /\ handler_entries' = handler_entries + 1
    /\ \E cleanup \in PrematureEndOf :
        /\ workflow_config' = [workflow_config EXCEPT !.premature_end_cmd = cleanup]
        /\ \/ /\ cleanup = Absent
              \* except ConfigException: pass
              /\ SysExit(PrematureEndMsg(exc.command_num, exc.emsg))
              /\ UNCHANGED <<exc, executed, printed>>
           \/ /\ cleanup /= Absent
              /\ prepare_cmd(cleanup, convenience_variables).exc = "KeyError"
              \* prepare_cmd builds a WorkflowException of its own
              /\ IF handler_entries + 1 >= MaxRecursion
                 THEN /\ Uncaught("RuntimeError",
                                  <<"maximum recursion depth exceeded">>)
                      /\ UNCHANGED exc
                 ELSE /\ exc' = [command_num |-> command_num,
                                 emsg |-> MissingVariableMsg(
                                     prepare_cmd(cleanup, convenience_variables).val)]
                      /\ UNCHANGED <<pc, exit_status, exit_msg>>
              /\ UNCHANGED <<executed, printed>>
           \/ /\ cleanup /= Absent
              /\ prepare_cmd(cleanup, convenience_variables).exc = "ValueError"
              /\ Uncaught("ValueError",
                          prepare_cmd(cleanup, convenience_variables).val)
              /\ UNCHANGED <<exc, executed, printed>>
           \/ /\ cleanup /= Absent
              /\ prepare_cmd(cleanup, convenience_variables).exc = "none"
              /\ LET cleanup_cmd == prepare_cmd(cleanup, convenience_variables).val IN
                 \E res \in ProcResults(cleanup_cmd) :
                      /\ executed' = Append(executed, Call("cleanup", 0, cleanup_cmd, res))
                      /\ IF RunCmdFails(res)
                         THEN \* the Exception of run_cmd leaves __init__
                              /\ Uncaught("Exception", RunCmdErrorMsg(res))
                              /\ UNCHANGED printed
                         ELSE /\ printed' = Append(printed,
                                     <<"#Premature workflow end command executed ...", "\n">>
                                         \o RunCmdValue(res))
                              /\ SysExit(PrematureEndMsg(exc.command_num, exc.emsg))
              /\ UNCHANGED exc
    /\ UNCHANGED <<starting_command_num, num_chars_to_log, report_runtime,
                   runtimes, convenience_variables, plan, yielded, command_num,
                   command, failure>>

Next ==
    \/ ParseArgs
    \/ ReadOptions
    \/ ZkLookup
    \/ Plan
    \/ NextCommand
    \/ RunCommand
    \/ Complete
    \/ FailureHandler

Spec == Init /\ [][Next]_vars

\* ------------------------------------------- the sequencer on its own
\* Every always_run_cmds directive up to the bounds.
AlwaysChoices ==
    {NoAlwaysRun, MalformedAlwaysRun}
        \cup {AlwaysRunList(l) :
                l \in UNION {[1..k -> 1..MaxCmd] : k \in 1..MaxAlways}}

\* A starting number and a configuration file, before the generator runs.
SeqInit ==
    /\ pc = "sequencer"
    /\ starting_command_num \in StartingNums
    /\ \E cmds \in SUBSET (1..MaxCmd), always \in AlwaysChoices :
         workflow_config =
             [loaded |-> TRUE,
              cmds |-> cmds,
              templates |-> <<>>,
              always_run_cmds |-> always,
              premature_end_cmd |-> Unread,
              zk_queue_path |-> Unread]
    /\ num_chars_to_log = <<>>
    /\ report_runtime = "True"
    /\ runtimes = {}
    /\ convenience_variables = <<>>
    /\ plan = <<>>
    /\ yielded = <<>>
    /\ command_num = 0
    /\ command = <<>>
    /\ exc = NoExc
    /\ handler_entries = 0
    /\ executed = <<>>
    /\ printed = <<>>
    /\ failure = NoFailure
    /\ exit_status = -1
    /\ exit_msg = <<>>

\* get_workflow_cmd_num up to its first yield (lines 72-92).
SeqBuild ==
    /\ pc = "sequencer"
    /\ IF SequencerValueError(starting_command_num, workflow_config.always_run_cmds)
       THEN /\ Uncaught("ValueError", <<"invalid literal for int()">>)
            /\ UNCHANGED plan
       ELSE IF get_workflow_cmd_num(starting_command_num, workflow_config.cmds,
                                    workflow_config.always_run_cmds) = <<>>
       THEN /\ SysExit(<<"No workflow commands found.">>)
            /\ UNCHANGED plan
       ELSE /\ plan' = get_workflow_cmd_num(starting_command_num,
                           workflow_config.cmds, workflow_config.always_run_cmds)
            /\ pc' = "yielding"
            /\ UNCHANGED <<exit_status, exit_msg>>
    /\ UNCHANGED <<starting_command_num, workflow_config, num_chars_to_log,
                   report_runtime, runtimes, convenience_variables, yielded,
                   command_num, command, exc, handler_entries, executed,
                   printed, failure>>

\* for cmd_num in cmd_num_list: yield cmd_num (lines 93-94).
SeqYield ==
    /\ pc = "yielding"
    /\ plan /= <<>>
    /\ command_num' = Head(plan)
    /\ yielded' = Append(yielded, Head(plan))
    /\ plan' = Tail(plan)
    /\ UNCHANGED <<pc, starting_command_num, workflow_config, num_chars_to_log,
                   report_runtime, runtimes, convenience_variables, command,
                   exc, handler_entries, executed, printed, failure,
                   exit_status, exit_msg>>

\* The generator returns.
SeqExhausted ==
    /\ pc = "yielding"
    /\ plan = <<>>
    /\ pc' = "exhausted"
    /\ UNCHANGED <<starting_command_num, workflow_config, num_chars_to_log,
                   report_runtime, runtimes, convenience_variables, plan,
                   yielded, command_num, command, exc, handler_entries,
                   executed, printed, failure, exit_status, exit_msg>>

SeqNext == SeqBuild \/ SeqYield \/ SeqExhausted

SeqSpec == SeqInit /\ [][SeqNext]_vars

\* --------------------------------------------- the expansion on its own
\* What a template may be made of: ordinary text, a percent sign, the
\* escape token, and placeholders of two variables.
ExpandTokens ==
    {"a", "%", "_PERC_", Placeholder("now"), Placeholder("zk_queue_value")}

ExpandTemplates == UNION {[1..k -> ExpandTokens] : k \in 0..MaxTemplateLen}

\* What a variable may hold: text, the escape token, the text of a
\* placeholder, a percent sign, nothing.
ExpandValues ==
    {<<"v">>, <<"_PERC_">>, <<Placeholder("now")>>, <<"v", "%">>, <<>>}

ExpandMaps ==
    UNION {[D -> ExpandValues] : D \in SUBSET {"now", "zk_queue_value"}}

\* The loop about to expand command 1, for any template and variable map.
ExpandInit ==
    /\ pc = "loop"
    /\ starting_command_num = 1
    /\ \E raw_cmd \in ExpandTemplates :
         workflow_config =
             [loaded |-> TRUE,
              cmds |-> {1},
              templates |-> <<raw_cmd>>,
              always_run_cmds |-> UnreadAlwaysRun,
              premature_end_cmd |-> Unread,
              zk_queue_path |-> <<>>]
    /\ num_chars_to_log = <<>>
    /\ report_runtime = "True"
    /\ runtimes = {"workflow"}
    /\ convenience_variables \in ExpandMaps
    /\ plan = <<1>>
    /\ yielded = <<>>
    /\ command_num = 0
    /\ command = <<>>
    /\ exc = NoExc
    /\ handler_entries = 0
    /\ executed = <<>>
    /\ printed = <<>>
    /\ failure = NoFailure
    /\ exit_status = -1
    /\ exit_msg = <<>>

\* The step of the loop that calls prepare_cmd.
ExpandNext == NextCommand

ExpandSpec == ExpandInit /\ [][ExpandNext]_vars

\* ============================================================ properties
\* The calls of run_cmd made for workflow commands, and for the cleanup.
WorkflowCalls(log) == SelectSeq(log, LAMBDA c : c.kind = "workflow")
CleanupCalls(log) == SelectSeq(log, LAMBDA c : c.kind = "cleanup")

\* Command K has been run in this run and the process succeeded.
ExecutedOk(K) ==
    \E i \in DOMAIN executed :
        /\ executed[i].kind = "workflow"
        /\ executed[i].command_num = K
        /\ executed[i].rc = 0
        /\ executed[i].err = <<>>

\* The strictly ascending sequence of the elements of a set of numbers.
SortedSeq(S) ==
    CHOOSE s \in [1..Cardinality(S) -> S] :
        \A i, j \in 1..Cardinality(S) : i < j => s[i] < s[j]

StrictlyAscending(s) == \A i, j \in DOMAIN s : i < j => s[i] < s[j]

\* The variable map as the outputs of the workflow calls before the i-th
\* make it: the variables that are no command output, and for each command
\* called before, the stripped output of its latest call.
VarsBefore(i) ==
    LET W == WorkflowCalls(executed)
        outs == {CmdOutputVar(n) : n \in 1..(MaxCmd + 1)}
        base == DOMAIN convenience_variables \ outs
        Latest(name) ==
            CHOOSE j \in 1..(i - 1) :
                /\ CmdOutputVar(W[j].command_num) = name
                /\ \A k \in (j + 1)..(i - 1) : CmdOutputVar(W[k].command_num) /= name
    IN  [name \in base \cup {CmdOutputVar(W[j].command_num) : j \in 1..(i - 1)} |->
            IF name \in base THEN convenience_variables[name]
            ELSE Strip(W[Latest(name)].out)]

\* The run ended through the failure path with the message of the loop's
\* own failure: "Workflow ended prematurely, #N command error: <text of N>".
EndsWithOriginalFailure ==
    /\ exit_status = 1
    /\ exit_msg = PrematureEndMsg(failure.command_num, failure.emsg)

\* C1: once a command of the loop has failed (in expansion or execution), no
\* further workflow command is handed to the executor: neither a later
\* command of the plan nor the failed one again.
C1_AbortOnFailure ==
    [][failure.kind /= "none"
         => WorkflowCalls(executed') = WorkflowCalls(executed)]_vars

\* C1 witness: command 1 failed in execution, the process has ended, the plan
\* still held commands after it and only the one call was made.
C1_Witness ==
    /\ pc = "exited"
    /\ failure.kind = "ExecutionError"
    /\ failure.command_num = 1
    /\ plan /= <<>>
    /\ Len(WorkflowCalls(executed)) = 1

\* C2: when a command fails in execution and premature_end_cmd is configured,
\* the process ends after exactly one execution of the cleanup command and
\* with the message of the original failure, not one from the cleanup.
C2_CleanupOnceOriginalMessage ==
    (/\ pc = "exited"
     /\ failure.kind = "ExecutionError"
     /\ workflow_config.premature_end_cmd \notin {Unread, Absent})
        => /\ Len(CleanupCalls(executed)) = 1
           /\ EndsWithOriginalFailure

\* C3: when the cleanup command itself fails on execution, the process still
\* ends with the message naming the failed command and its error text.
C3_CleanupFailureDoesNotMask ==
    (/\ pc = "exited"
     /\ failure.kind \in {"ExecutionError", "MissingVariable"}
     /\ \E i \in DOMAIN executed :
            /\ executed[i].kind = "cleanup"
            /\ (executed[i].rc /= 0 \/ executed[i].err /= <<>>))
        => EndsWithOriginalFailure

\* C4: the failure handler is entered at most once in a run, and only in a
\* run whose loop has failed.
C4_HandlerOnce ==
    /\ handler_entries <= 1
    /\ handler_entries >= 1 => failure.kind /= "none"

\* C5: a run in which a command of the loop failed ends with a non-zero
\* status and the message naming that command and its error text, whatever
\* premature_end_cmd is; without the directive no cleanup runs and none of
\* its output is printed.
C5_FailureTerminates ==
    (pc = "exited" /\ failure.kind \in {"ExecutionError", "MissingVariable"})
        => /\ EndsWithOriginalFailure
           /\ workflow_config.premature_end_cmd = Absent
                => /\ CleanupCalls(executed) = <<>>
                   /\ \A i \in DOMAIN printed :
                        printed[i][1] /= "#Premature workflow end command executed ..."

\* C6: a run that completes exits 0, has executed each command number of its
\* plan exactly once and in ascending order, each command line being its
\* template expanded with the outputs of the commands before it, and has not
\* run the cleanup.
C6_CompletedRun ==
    pc = "completed"
        => /\ exit_status = 0
           /\ [i \in DOMAIN WorkflowCalls(executed) |->
                  WorkflowCalls(executed)[i].command_num] = yielded
           /\ StrictlyAscending(yielded)
           /\ \A i \in DOMAIN WorkflowCalls(executed) :
                WorkflowCalls(executed)[i].cmd =
                    prepare_cmd(
                        workflow_config.templates[WorkflowCalls(executed)[i].command_num],
                        VarsBefore(i)).val
           /\ CleanupCalls(executed) = <<>>

\* C7: when the template of the command being expanded references
\* cmd_K_output and K has not run successfully in this run, the step raises
\* WorkflowException for that command number with the missing-variable text;
\* nothing is handed to the executor and no command is produced.
C7_MissingVariable ==
    [][\A K \in 1..MaxCmd :
         (/\ pc = "loop"
          /\ plan /= <<>>
          /\ Head(plan) \in workflow_config.cmds
          /\ Placeholder(CmdOutputVar(K))
                 \in Range(workflow_config'.templates[Head(plan)])
          /\ ~ExecutedOk(K))
            => /\ pc' = "handler"
               /\ exc' = [command_num |-> Head(plan),
                          emsg |-> MissingVariableMsg(<<CmdOutputVar(K)>>)]
               /\ failure'.kind = "MissingVariable"
               /\ executed' = executed
               /\ command' = command]_vars

\* C7 witness: command 2 references the output of a command that has not
\* run, after command 1 ran; the handler is about to be entered for it.
C7_Witness ==
    /\ pc = "handler"
    /\ handler_entries = 0
    /\ failure.kind = "MissingVariable"
    /\ failure.command_num = 2
    /\ exc.command_num = 2
    /\ ExecutedOk(1)
    /\ ~ExecutedOk(2)

\* C8: the variable map holds cmd_N_output only for commands that have run
\* successfully in this run; and when command M has just been expanded, it
\* holds cmd_N_output, for N < M, exactly for the N yielded before M.
C8_Ordering ==
    /\ \A N \in 1..(MaxCmd + 1) :
         CmdOutputVar(N) \in DOMAIN convenience_variables => ExecutedOk(N)
    /\ (pc = "run" \/ failure.kind = "MissingVariable")
         => \A N \in 1..(command_num - 1) :
              CmdOutputVar(N) \in DOMAIN convenience_variables
                <=> N \in Range(SubSeq(yielded, 1, Len(yielded) - 1))

\* C8 witness: command 3 has been expanded in a plan that holds 1 but not 2.
C8_Witness ==
    /\ pc = "run"
    /\ command_num = 3
    /\ yielded = <<1, 3>>
    /\ CmdOutputVar(1) \in DOMAIN convenience_variables
    /\ CmdOutputVar(2) \notin DOMAIN convenience_variables

\* C9: with commands 1..K, a starting number S in 1..K and no always_run_cmds
\* directive, the sequencer does not fail and yields S, S+1, ..., K.
C9_DensePlan ==
    \A K \in 1..MaxCmd :
        (/\ workflow_config.cmds = 1..K
         /\ starting_command_num >= 1
         /\ starting_command_num <= K
         /\ workflow_config.always_run_cmds = NoAlwaysRun)
            => /\ pc /= "exited"
               /\ pc = "exhausted"
                    => yielded = [i \in 1..(K - starting_command_num + 1)
                                    |-> starting_command_num + i - 1]

\* C9 witness: commands 1..3, start at 2, no directive: 2, 3 were yielded.
C9_Witness ==
    /\ pc = "exhausted"
    /\ workflow_config.cmds = 1..3
    /\ starting_command_num = 2
    /\ workflow_config.always_run_cmds = NoAlwaysRun
    /\ yielded = <<2, 3>>

\* C10: with always_run_cmds = 1,2, commands 1..K and a starting number
\* S > 1, the sequencer does not fail and yields the ascending sequence of
\* {1,2} union {S..K}, each number once.
C10_AlwaysRunPlan ==
    \A K \in 0..MaxCmd :
        (/\ workflow_config.cmds = 1..K
         /\ starting_command_num > 1
         /\ workflow_config.always_run_cmds = AlwaysRunList(<<1, 2>>))
            => /\ pc /= "exited"
               /\ pc = "exhausted"
                    => yielded = SortedSeq({1, 2} \cup (starting_command_num..K))

\* C10 witness: the start overlaps the override (S = 2, commands 1..3).
C10_Witness ==
    /\ pc = "exhausted"
    /\ workflow_config.cmds = 1..3
    /\ starting_command_num = 2
    /\ workflow_config.always_run_cmds = AlwaysRunList(<<1, 2>>)
    /\ yielded = <<1, 2, 3>>

\* The parts of C6 that do not count executions: exit status, the order of
\* the plan, the expansion of every command, no cleanup.
CompletedRunFollowsPlan ==
    pc = "completed"
        => /\ exit_status = 0
           /\ [i \in DOMAIN WorkflowCalls(executed) |->
                  WorkflowCalls(executed)[i].command_num] = yielded
           /\ \A i, j \in DOMAIN yielded : i < j => yielded[i] <= yielded[j]
           /\ \A i \in DOMAIN WorkflowCalls(executed) :
                WorkflowCalls(executed)[i].cmd =
                    prepare_cmd(
                        workflow_config.templates[WorkflowCalls(executed)[i].command_num],
                        VarsBefore(i)).val
           /\ CleanupCalls(executed) = <<>>

\* C11: the sequence of numbers the sequencer yields is non-empty, strictly
\* ascending and without duplicates, for every starting number and every
\* configuration, an always_run_cmds list that repeats a number included.
C11_PlanStrictlyAscending ==
    pc = "exhausted" => yielded /= <<>> /\ StrictlyAscending(yielded)

\* The part of C11 that the sequencer keeps: non-empty and never descending.
PlanAscending ==
    pc = "exhausted"
        => /\ yielded /= <<>>
           /\ \A i, j \in DOMAIN yielded : i < j => yielded[i] <= yielded[j]

\* The last number of the run of contiguous commands that starts at S
\* (S - 1 when there is no command S).
HighestContiguous(S, cmds) ==
    CHOOSE b \in (S - 1)..MaxCmd :
        /\ \A n \in S..b : n \in cmds
        /\ (b + 1) \notin cmds

\* The numbers of always_run_cmds that the sequencer was given to prepend.
OverrideNumbers ==
    IF starting_command_num > 1 /\ workflow_config.always_run_cmds.kind = "list"
    THEN Range(workflow_config.always_run_cmds.list) ELSE {}

\* C12 as stated: a number of always_run_cmds above the highest contiguous
\* command found from the starting number is not in the plan.
C12_OverrideAboveBoundaryExcluded ==
    (pc = "exhausted" /\ starting_command_num \in workflow_config.cmds)
        => \A n \in OverrideNumbers :
             n > HighestContiguous(starting_command_num, workflow_config.cmds)
                => n \notin Range(yielded)

\* C12 amended: the probed range ends at the first gap whatever
\* always_run_cmds holds, and the plan is that range together with every
\* number of always_run_cmds (for a starting number above 1): a number above
\* the range is in the plan exactly when always_run_cmds lists it.
C12_PlanIsRangePlusOverride ==
    pc = "exhausted"
        => Range(yielded) =
             (starting_command_num
                ..HighestContiguous(starting_command_num, workflow_config.cmds))
             \cup OverrideNumbers

\* C12 witness: commands 1 and 2, start at 2, always_run_cmds = 3, 1: the
\* plan holds 3 above the range, and the probe stopped at the gap after 2.
C12_Witness ==
    /\ pc = "exhausted"
    /\ workflow_config.cmds = {1, 2}
    /\ starting_command_num = 2
    /\ workflow_config.always_run_cmds = AlwaysRunList(<<3, 1>>)
    /\ yielded = <<1, 2, 3>>

\* C13: the sequencer ends with "No workflow commands found." exactly when
\* there is no command at the starting number S and no always_run_cmds number
\* is prepended (S not above 1, or no directive); no number is then yielded.
C13_NoCommandsFound ==
    pc /= "sequencer"
        => /\ (pc = "exited" /\ exit_msg = <<"No workflow commands found.">>)
                <=> /\ starting_command_num \notin workflow_config.cmds
                    /\ \/ starting_command_num <= 1
                       \/ workflow_config.always_run_cmds = NoAlwaysRun
           /\ exit_msg = <<"No workflow commands found.">>
                => yielded = <<>> /\ plan = <<>> /\ exit_status = 1

\* C13 witness: start at 1 without a command 1, although always_run_cmds
\* lists a number; the sequencer has failed without yielding.
C13_Witness ==
    /\ pc = "exited"
    /\ exit_msg = <<"No workflow commands found.">>
    /\ starting_command_num = 1
    /\ workflow_config.cmds = {2, 3}
    /\ workflow_config.always_run_cmds = AlwaysRunList(<<2>>)
    /\ yielded = <<>>

\* C17: every number the sequencer yields has a command directive, so the
\* loop's lookup of the command never fails for want of the directive.
C17_YieldedHaveCommands ==
    /\ Range(yielded) \subseteq workflow_config.cmds
    /\ failure.kind /= "CommandNotFound"

\* The latest successful call of command N among the workflow calls so far.
LatestOkCallOf(N) ==
    LET W == WorkflowCalls(executed)
        Ok(j) == W[j].command_num = N /\ W[j].rc = 0 /\ W[j].err = <<>>
    IN  W[CHOOSE j \in DOMAIN W : Ok(j) /\ \A k \in DOMAIN W : k > j => ~Ok(k)]

\* C14: whatever max_num_chars_cmd_output is, the value held as cmd_N_output
\* is the whole output of command N as run_cmd returned it, and every
\* command line handed to the executor is the whole expansion of its
\* template with those whole values; only the printed lines are cut.
C14_CapLimitsOnlyLog ==
    /\ \A N \in 1..(MaxCmd + 1) :
         CmdOutputVar(N) \in DOMAIN convenience_variables
            => convenience_variables[CmdOutputVar(N)] = Strip(LatestOkCallOf(N).out)
    /\ \A i \in DOMAIN WorkflowCalls(executed) :
         WorkflowCalls(executed)[i].cmd =
             prepare_cmd(
                 workflow_config.templates[WorkflowCalls(executed)[i].command_num],
                 VarsBefore(i)).val
    /\ pc = "run"
         => command = prepare_cmd(workflow_config.templates[command_num],
                                  convenience_variables).val

\* C14 witness: with a cap of 1, command 2 printed only "b" of its output
\* "b a %", and command 3 has been expanded with the whole of it.
C14_Witness ==
    /\ pc = "run"
    /\ num_chars_to_log = <<1>>
    /\ command_num = 3
    /\ CmdOutputVar(2) \in DOMAIN convenience_variables
    /\ convenience_variables[CmdOutputVar(2)] = <<"b", "a", "%">>
    /\ command = <<"b", "b", "a", "%", "%">>
    /\ \E i \in DOMAIN printed : printed[i] = <<"b">>

\* The process has ended with a non-zero status before the loop received a
\* command number: nothing was run for the workflow or for the cleanup, and
\* the failure handler was not entered.
EndedAtStartup ==
    /\ pc = "exited"
    /\ exit_status >= 1
    /\ yielded = <<>>
    /\ WorkflowCalls(executed) = <<>>
    /\ CleanupCalls(executed) = <<>>
    /\ handler_entries = 0

\* C15: a configuration error at startup (no zk_queue_path directive, no
\* readable configuration, a malformed always_run_cmds entry, an empty plan)
\* ends the process with a non-zero status before any workflow command is
\* run, and premature_end_cmd is not run on that path.
C15_StartupErrorNoCleanup ==
    /\ workflow_config.zk_queue_path = Absent => EndedAtStartup
    /\ exit_msg = <<"No configuration files found">> => EndedAtStartup
    /\ SequencerValueError(starting_command_num, workflow_config.always_run_cmds)
         => EndedAtStartup
    /\ exit_msg = <<"No workflow commands found.">> => EndedAtStartup
    /\ yielded = <<>>
         => /\ WorkflowCalls(executed) = <<>>
            /\ CleanupCalls(executed) = <<>>
            /\ handler_entries = 0
            /\ pc /= "handler"

\* C15 witness: the queue lookup succeeded, then a malformed always_run_cmds
\* entry ended the run with status 1; the only call made is the lookup.
C15_Witness ==
    /\ pc = "exited"
    /\ exit_status = 1
    /\ starting_command_num = 2
    /\ workflow_config.always_run_cmds = MalformedAlwaysRun
    /\ "zk_queue_value" \in DOMAIN convenience_variables
    /\ Len(executed) = 1
    /\ handler_entries = 0

\* The queue lookup of this run, when one was made.
ZkCalls(log) == SelectSeq(log, LAMBDA c : c.kind = "zk")

\* C16: with a non-empty zk_queue_path, a lookup that fails or returns
\* nothing ends the run before the loop: no workflow command is run and
\* zk_queue_value is not put in the variable map; zk_queue_value is in the
\* map only when the path is non-empty and the lookup succeeded.
C16_GateError ==
    /\ \A i \in DOMAIN ZkCalls(executed) :
         (\/ ZkCalls(executed)[i].rc /= 0
          \/ ZkCalls(executed)[i].err /= <<>>
          \/ Strip(ZkCalls(executed)[i].out) = <<>>)
            => /\ pc = "exited"
               /\ exit_status = 1
               /\ exit_msg = <<"Nothing in the workflow queue ">>
                                 \o workflow_config.zk_queue_path
               /\ WorkflowCalls(executed) = <<>>
               /\ "zk_queue_value" \notin DOMAIN convenience_variables
    /\ "zk_queue_value" \in DOMAIN convenience_variables
         => /\ workflow_config.zk_queue_path \notin {Unread, Absent, <<>>}
            /\ Len(ZkCalls(executed)) = 1
            /\ ZkCalls(executed)[1].rc = 0
            /\ ZkCalls(executed)[1].err = <<>>

\* The part of C16 the gate keeps: a lookup that fails (non-zero status or
\* text on the error stream) ends the run before the loop; zk_queue_value is
\* set only by a lookup that succeeded, for a non-empty path.
GateFailureIsFatal ==
    /\ \A i \in DOMAIN ZkCalls(executed) :
         (ZkCalls(executed)[i].rc /= 0 \/ ZkCalls(executed)[i].err /= <<>>)
            => /\ pc = "exited"
               /\ exit_status = 1
               /\ WorkflowCalls(executed) = <<>>
               /\ "zk_queue_value" \notin DOMAIN convenience_variables
    /\ "zk_queue_value" \in DOMAIN convenience_variables
         => /\ workflow_config.zk_queue_path \notin {Unread, Absent, <<>>}
            /\ Len(ZkCalls(executed)) = 1
            /\ ZkCalls(executed)[1].rc = 0
            /\ ZkCalls(executed)[1].err = <<>>

\* The variable map is the one of the moment command N failed: the
\* variables set before the loop, cmd_K_output for exactly the commands K
\* that ran successfully, nothing for N or for a later command; and the
\* cleanup command that was run is premature_end_cmd expanded with it.
MapAtFailure(N) ==
    /\ {"now", "YrMn", "YrMnDy", "curdate"} \subseteq DOMAIN convenience_variables
    /\ \A K \in 1..(MaxCmd + 1) :
         CmdOutputVar(K) \in DOMAIN convenience_variables <=> ExecutedOk(K)
    /\ \A K \in N..(MaxCmd + 1) :
         CmdOutputVar(K) \notin DOMAIN convenience_variables
    /\ \A i \in DOMAIN CleanupCalls(executed) :
         CleanupCalls(executed)[i].cmd =
             prepare_cmd(workflow_config.premature_end_cmd,
                         convenience_variables).val

\* C18: once command N has failed, the cleanup command is expanded with the
\* variable map of that moment: the convenience variables and cmd_K_output
\* for exactly the commands K that completed before N, without cmd_N_output
\* and without the output of any command after N.
C18_CleanupMapAtFailure ==
    failure.kind \in {"ExecutionError", "MissingVariable"}
        => MapAtFailure(failure.command_num)

\* C18 for a plan without a repeated number.
CleanupMapAtFailureNoRepeat ==
    (failure.kind \in {"ExecutionError", "MissingVariable"}
       /\ StrictlyAscending(yielded))
        => MapAtFailure(failure.command_num)

\* The template that was expanded, under ExpandSpec.
ExpandedTemplate == workflow_config.templates[1]

\* Each token of the template on its own: the value of a placeholder as it
\* is, "%" for the escape token, other text unchanged.
RECURSIVE InsertUnchanged(_, _)
InsertUnchanged(t, v) ==
    IF t = <<>> THEN <<>>
    ELSE (IF Head(t) \in PlaceholderTokens THEN v[NameOf(Head(t))]
          ELSE IF Head(t) = "_PERC_" THEN <<"%">>
          ELSE <<Head(t)>>) \o InsertUnchanged(Tail(t), v)

\* The template has no percent sign of its own and names only variables set.
PlainTemplate(t, v) ==
    /\ "%" \notin Range(t)
    /\ \A i \in DOMAIN t : t[i] \in PlaceholderTokens => NameOf(t[i]) \in DOMAIN v

\* C19: expansion inserts the values unchanged, in one pass: no text of a
\* value is rewritten, neither a placeholder nor the escape token _PERC_ in
\* it, and an escape token of the template becomes "%" after substitution
\* without being read as placeholder syntax (a _PERC_ a gives a % a).
C19_ValuesInsertedUnchanged ==
    (pc /= "loop" /\ PlainTemplate(ExpandedTemplate, convenience_variables))
        => /\ pc = "run"
           /\ command = InsertUnchanged(ExpandedTemplate, convenience_variables)

\* The part of C19 that expansion keeps: one pass, the escape token
\* restored afterwards over the whole line, so that a placeholder inside a
\* value stays as it is and only _PERC_ inside a value is touched.
SinglePassThenRestore ==
    (pc /= "loop" /\ PlainTemplate(ExpandedTemplate, convenience_variables))
        => /\ pc = "run"
           /\ command =
                InsertUnchanged(ExpandedTemplate,
                    [n \in DOMAIN convenience_variables |->
                       [i \in DOMAIN convenience_variables[n] |->
                          IF convenience_variables[n][i] = "_PERC_" THEN "%"
                          ELSE convenience_variables[n][i]]])

\* C20 as stated: a template without a placeholder expands to itself.
C20_IdentityWithoutPlaceholders ==
    (pc /= "loop" /\ Range(ExpandedTemplate) \cap PlaceholderTokens = {})
        => pc = "run" /\ command = ExpandedTemplate

\* C20 amended: a template without a placeholder and without a percent sign
\* expands, for every variable map, to itself with each escape token _PERC_
\* replaced by "%"; to itself when it has no escape token either.
C20_IdentityUpToEscape ==
    (/\ pc /= "loop"
     /\ Range(ExpandedTemplate) \cap PlaceholderTokens = {}
     /\ "%" \notin Range(ExpandedTemplate))
        => /\ pc = "run"
           /\ command = [i \in DOMAIN ExpandedTemplate |->
                           IF ExpandedTemplate[i] = "_PERC_" THEN "%"
                           ELSE ExpandedTemplate[i]]
           /\ "_PERC_" \notin Range(ExpandedTemplate) => command = ExpandedTemplate

\* C20 witness: a _PERC_ a was expanded to a % a with a non-empty map.
C20_Witness ==
    /\ pc = "run"
    /\ ExpandedTemplate = <<"a", "_PERC_", "a">>
    /\ command = <<"a", "%", "a">>
    /\ "now" \in DOMAIN convenience_variables

====
